---------------------------- MODULE Spec2Model ----------------------------
(***************************************************************************)
(* A model of the Mikrotik RouterOS API client (src/mikrotik/mikrotik.py): *)
(* the length codec (pack_length / unpack_length), the sentence builder    *)
(* (MikrotikAPIRequest.get_request), the response parser (the second half  *)
(* of Mikrotik._recv) and the session (Mikrotik._send, _recv, login, run,  *)
(* disconnect) over a byte-stream transport.                               *)
(*                                                                         *)
(* Representation.  A Python bytes object and a Python str are both        *)
(* sequences of naturals: byte values 0..255, respectively Unicode code    *)
(* points.  Where the code's behaviour depends on which of the two it is   *)
(* handed (ord() of an element of a bytes object), the value carries its   *)
(* type: [t |-> "bytes" | "str", v |-> <<...>>].  A call that may raise    *)
(* returns [err |-> "", val |-> v] or [err |-> <exception>, val |-> ...].  *)
(***************************************************************************)
EXTENDS Integers, Sequences, FiniteSets, TLC

(***************************************************************************)
(* Python primitives used by the source.                                   *)
(***************************************************************************)
Ok(v) == [err |-> "", val |-> v]

Raise(e, v) == [err |-> e, val |-> v]

Bytes(v) == [t |-> "bytes", v |-> v]

\* F(x), with x evaluated once, before F is applied to it: a local variable
\* that is assigned once and read several times.
With(x, F(_)) == CHOOSE r \in {F(v) : v \in {x}} : TRUE

Str(v) == [t |-> "str", v |-> v]

RECURSIVE BitAnd(_, _)
BitAnd(x, y) ==
    IF x = 0 \/ y = 0 THEN 0
    ELSE (IF x % 2 = 1 /\ y % 2 = 1 THEN 1 ELSE 0)
         + 2 * BitAnd(x \div 2, y \div 2)

BitOr(x, y) == x + y - BitAnd(x, y)

\* x & ~m for a non-negative x
BitClear(x, m) == x - BitAnd(x, m)

\* s[a:b] of Python for 0 <= a, 0 <= b (both clamped to len(s))
Slice(s, a, b) ==
    LET hi == IF b > Len(s) THEN Len(s) ELSE b
    IN  IF a >= hi THEN <<>> ELSE SubSeq(s, a + 1, hi)

\* s[a:]
SliceFrom(s, a) == Slice(s, a, Len(s))

\* s.startswith(p)
StartsWith(s, p) == Len(s) >= Len(p) /\ SubSeq(s, 1, Len(p)) = p

\* s.find(c) for a single character c: the first index (from 0), or -1
Find(s, c) ==
    IF \E i \in 1..Len(s) : s[i] = c
    THEN (CHOOSE i \in 1..Len(s) : s[i] = c /\ \A j \in 1..(i - 1) : s[j] # c) - 1
    ELSE -1

RECURSIVE Concat(_)
Concat(ss) == IF ss = <<>> THEN <<>> ELSE Head(ss) \o Concat(Tail(ss))

(***************************************************************************)
(* The length codec.                                                       *)
(***************************************************************************)
\* struct.pack("!B"...) of the listed values: a bytes object.  In the last
\* class the source ORs 0xE0000000 into length and shifts right by 24; TLC's
\* integers are 32 bits wide, so the marker is ORed into the top byte, which
\* is the same byte: (length | 0xE0000000) >> 24 = (length >> 24) | 0xE0.
pack_length(length) ==
    IF length < 128 THEN
        Ok(<<length>>)
    ELSE IF length <= 16383 THEN
        LET l == BitOr(length, 32768)
        IN  Ok(<<(l \div 256) % 256, l % 256>>)
    ELSE IF length <= 2097151 THEN
        LET l == BitOr(length, 12582912)
        IN  Ok(<<l \div 65536, (l % 65536) \div 256, l % 256>>)
    ELSE IF length <= 268435455 THEN
        Ok(<<BitOr(length \div 16777216, 224), (length % 16777216) \div 65536,
             (length % 65536) \div 256, length % 256>>)
    ELSE Raise("MikrotikAPIError: Too long command!", <<>>)

\* ord(length[i]): an element of a str is a str of length 1, an element of a
\* bytes object is an int, of which ord() raises TypeError.
OrdItemRaises(x) == x.t = "bytes"

unpack_length(x) ==
    LET n    == Len(x.v)
        o(i) == x.v[i + 1]
    IN  IF n = 1 THEN
            \* ord(length): defined of a str and of a bytes object of length 1
            Ok(o(0))
        ELSE IF n = 2 THEN
            IF OrdItemRaises(x) THEN Raise("TypeError", 0)
            ELSE Ok(BitClear(o(0), 192) * 256 + o(1))
        ELSE IF n = 3 THEN
            IF OrdItemRaises(x) THEN Raise("TypeError", 0)
            ELSE Ok((BitClear(o(0), 224) * 256 + o(1)) * 256 + o(2))
        ELSE IF n = 4 /\ OrdItemRaises(x) THEN
            Raise("TypeError", 0)
        ELSE IF n = 4 /\ BitAnd(o(0), 240) = 224 THEN
            Ok(((BitClear(o(0), 240) * 256 + o(1)) * 256 + o(2)) * 256 + o(3))
        ELSE IF n = 4 /\ BitAnd(o(0), 143) = 240 THEN
            \* c is read before it is assigned
            Raise("UnboundLocalError", 0)
        ELSE Raise("MikrotikAPIError: Invalid message length", 0)

(***************************************************************************)
(* UTF-8, as bytes.decode("utf-8") and str.encode("utf-8") compute it      *)
(* (strict: no overlong forms, no surrogates, nothing above U+10FFFF).     *)
(***************************************************************************)
\* The number of bytes of the character that starts at b[i], or 0 when the
\* bytes at i are not a well-formed character.
Utf8Width(b, i) ==
    LET c       == b[i]
        At(j)   == IF j <= Len(b) THEN b[j] ELSE -1
        Cont(j) == At(j) \in 128..191
    IN  IF c < 128 THEN 1
        ELSE IF c \in 194..223 /\ Cont(i + 1) THEN 2
        ELSE IF c = 224 /\ At(i + 1) \in 160..191 /\ Cont(i + 2) THEN 3
        ELSE IF c \in (225..236) \cup (238..239) /\ Cont(i + 1) /\ Cont(i + 2) THEN 3
        ELSE IF c = 237 /\ At(i + 1) \in 128..159 /\ Cont(i + 2) THEN 3
        ELSE IF c = 240 /\ At(i + 1) \in 144..191 /\ Cont(i + 2) /\ Cont(i + 3) THEN 4
        ELSE IF c \in 241..243 /\ Cont(i + 1) /\ Cont(i + 2) /\ Cont(i + 3) THEN 4
        ELSE IF c = 244 /\ At(i + 1) \in 128..143 /\ Cont(i + 2) /\ Cont(i + 3) THEN 4
        ELSE 0

Utf8CodePoint(b, i, w) ==
    IF w = 1 THEN b[i]
    ELSE IF w = 2 THEN (b[i] - 192) * 64 + (b[i + 1] - 128)
    ELSE IF w = 3 THEN (b[i] - 224) * 4096 + (b[i + 1] - 128) * 64 + (b[i + 2] - 128)
    ELSE (b[i] - 240) * 262144 + (b[i + 1] - 128) * 4096
         + (b[i + 2] - 128) * 64 + (b[i + 3] - 128)

\* bytes.decode("utf-8").  Every byte outside 0x80..0xBF starts a character;
\* the bytes are well formed when the first byte starts one and every
\* character ends where the next one starts, or at the end.
Utf8Decode(b) ==
    LET starts == {i \in 1..Len(b) : b[i] \notin 128..191}
        ends(i) == i + Utf8Width(b, i)
    IN  IF /\ b # <<>> => 1 \in starts
           /\ \A i \in starts : /\ Utf8Width(b, i) # 0
                                /\ ends(i) = Len(b) + 1 \/ ends(i) \in starts
        THEN Ok(SelectSeq([i \in 1..Len(b) |->
                              IF i \in starts
                              THEN Utf8CodePoint(b, i, Utf8Width(b, i)) ELSE -1],
                          LAMBDA c : c # -1))
        ELSE Raise("UnicodeDecodeError", <<>>)

\* the bytes of one code point (not a surrogate)
Utf8EncodeChar(c) ==
    IF c < 128 THEN <<c>>
    ELSE IF c < 2048 THEN <<192 + (c \div 64), 128 + (c % 64)>>
    ELSE IF c < 65536 THEN
        <<224 + (c \div 4096), 128 + ((c \div 64) % 64), 128 + (c % 64)>>
    ELSE <<240 + (c \div 262144), 128 + ((c \div 4096) % 64),
           128 + ((c \div 64) % 64), 128 + (c % 64)>>

\* str.encode("utf-8")
Utf8Encode(s) == Concat([i \in 1..Len(s) |-> Utf8EncodeChar(s[i])])

(***************************************************************************)
(* The response parser: Mikrotik._recv from the length check on.           *)
(***************************************************************************)
BANG == 33

EQUALS == 61

S_done == <<100, 111, 110, 101>>

S_trap == <<116, 114, 97, 112>>

S_fatal == <<102, 97, 116, 97, 108>>

S_re == <<114, 101>>

S_message == <<61, 109, 101, 115, 115, 97, 103, 101, 61>>

\* MikrotikAPIResponseTypes
STATUS == 1

ERROR == 2

DATA == 3

EmptyDict == [k \in {} |-> <<>>]

\* MikrotikApiResponse(status, type, attributes, error)
MikrotikApiResponse(status, type, attributes, error) ==
    [status |-> status, type |-> type, attributes |-> attributes, error |-> error]

\* responses.split(b'\x00'): the segments between the zero bytes
RECURSIVE SplitNul(_)
SplitNul(b) ==
    With(Find(b, 0), LAMBDA f :
        IF f = -1 THEN <<b>>
        ELSE With(SliceFrom(b, f + 1), LAMBDA rest : <<Slice(b, 0, f)>> \o SplitNul(rest)))

\* One turn of "while start < len(response)" and the turns after it.
\* length and length_length keep the values of the turn before when no
\* branch of the if/elif chain is taken.
\* One turn: the length prefix at response[start] and the word after it.
\* t holds the loop's variables start, length, length_length, data, errors.
WordTurn(response, t) ==
    LET start == t.start
        c     == response[start + 1]
        dec   == IF BitAnd(c, 128) = 0 THEN
                     [u |-> unpack_length(Str(<<c>>)), ll |-> 1]
                 ELSE IF BitAnd(c, 192) = 128 THEN
                     [u |-> unpack_length(Str(Slice(response, start, start + 1))), ll |-> 2]
                 ELSE IF BitAnd(c, 224) = 192 THEN
                     [u |-> unpack_length(Str(Slice(response, start, start + 2))), ll |-> 3]
                 ELSE IF BitAnd(c, 240) = 224 THEN
                     [u |-> unpack_length(Str(Slice(response, start, start + 3))), ll |-> 4]
                 ELSE IF BitAnd(c, 248) = 240 THEN
                     [u |-> unpack_length(Str(Slice(response, start, start + 4))), ll |-> 5]
                 ELSE [u |-> Ok(t.length), ll |-> t.length_length]
    IN  With(dec, LAMBDA d :
          IF d.u.err # "" THEN Raise(d.u.err, t)
          ELSE
            LET length  == d.u.val
                start2  == start + d.ll
                message == Slice(response, start2, start2 + length)
                rest    == SliceFrom(message, 1)
                f       == Find(rest, EQUALS)
            IN  IF StartsWith(message, <<EQUALS>>) /\ ~StartsWith(message, S_message)
                   /\ f = -1
                THEN \* (k, v) = message[1:].split("=", 1) with one part only
                     Raise("ValueError", t)
                ELSE Ok([start         |-> start2 + length,
                         length        |-> length,
                         length_length |-> d.ll,
                         data          |-> IF StartsWith(message, <<EQUALS>>)
                                              /\ ~StartsWith(message, S_message)
                                           THEN (Slice(rest, 0, f) :> SliceFrom(rest, f + 1))
                                                @@ t.data
                                           ELSE t.data,
                         errors        |-> IF StartsWith(message, S_message)
                                           THEN Append(t.errors, SliceFrom(message, 9))
                                           ELSE t.errors]))

\* "while start < len(response)".  length and length_length keep the values
\* of the turn before when no branch of the if/elif chain is taken.
RECURSIVE WordLoop(_, _)
WordLoop(response, t) ==
    IF ~(t.start < Len(response)) THEN Ok(t)
    ELSE With(WordTurn(response, t), LAMBDA n :
            IF n.err # "" THEN n ELSE WordLoop(response, n.val))

\* The body of "for response in responses.split(b'\x00')[:-1]" for one segment.
ParseSentence(segment) ==
    With(Utf8Decode(segment), LAMBDA d :
      IF d.err # "" THEN Raise(d.err, <<>>)
      ELSE
        LET response0 == d.val
            f         == Find(response0, BANG)
            \* response[:f] and response[f:], f = -1 included
            prefix    == IF f = -1 THEN Slice(response0, 0, Len(response0) - 1)
                         ELSE Slice(response0, 0, f)
            response1 == IF f = -1
                         THEN (IF response0 = <<>> THEN <<>>
                               ELSE SliceFrom(response0, Len(response0) - 1))
                         ELSE SliceFrom(response0, f)
        IN  With(<<unpack_length(Str(prefix)), response1>>, LAMBDA ur :
              IF ur[1].err # "" THEN Raise(ur[1].err, <<>>)
              ELSE
                LET length == ur[1].val
                    status == Slice(ur[2], 1, length)
                IN  IF status \notin {S_done, S_trap, S_fatal, S_re}
                    THEN Raise("MikrotikAPIError: invalid status", <<>>)
                    ELSE
                      With(WordLoop(ur[2], [start |-> length, length |-> length,
                                            length_length |-> 0, data |-> EmptyDict,
                                            errors |-> <<>>]),
                           LAMBDA w :
                             IF w.err # "" THEN Raise(w.err, <<>>)
                             ELSE Ok(MikrotikApiResponse(
                                        status,
                                        IF status = S_done THEN STATUS
                                        ELSE IF status = S_re THEN DATA
                                        ELSE ERROR,
                                        w.val.data, w.val.errors)))))

\* The for loop: an exception in any segment leaves the function, and nothing
\* is returned.
\* return_values holds the Replies of the segments before.
RECURSIVE ParseSegments(_, _)
ParseSegments(segments, return_values0) ==
    IF segments = <<>> THEN Ok(return_values0)
    ELSE With(ParseSentence(Head(segments)), LAMBDA r :
            IF r.err # "" THEN Raise(r.err, <<>>)
            ELSE With(<<Tail(segments), Append(return_values0, r.val)>>, LAMBDA n :
                    ParseSegments(n[1], n[2])))

\* _recv once the read loop has left: the check of the length, the split and
\* the parse of every segment but the last.
ParseResponses(responses) ==
    IF Len(responses) < 2
    THEN Raise("MikrotikAPIError: too short message", <<>>)
    ELSE With(SplitNul(responses), LAMBDA parts :
            ParseSegments(SubSeq(parts, 1, Len(parts) - 1), <<>>))

(***************************************************************************)
(* The sentence builder.  A dict is the sequence of its <<key, value>>     *)
(* pairs in insertion order, which is the order .items() yields.           *)
(***************************************************************************)
SLASH == 47

DOT == 46

QUESTION == 63

\* MikrotikAPIRequest.__init__
MikrotikAPIRequest(command, attributes, api_attributes, queries) ==
    IF ~StartsWith(command, <<SLASH>>)
    THEN Raise("MikrotikAPIError: Command should start with /", <<>>)
    ELSE Ok([command |-> command, attributes |-> attributes,
             api_attributes |-> api_attributes, queries |-> queries])

\* The words of get_request, as text, in the order they are appended.
RequestWords(r) ==
    <<r.command>>
    \o [i \in 1..Len(r.attributes) |->
          <<EQUALS>> \o r.attributes[i][1] \o <<EQUALS>> \o r.attributes[i][2]]
    \o [i \in 1..Len(r.api_attributes) |->
          <<DOT>> \o r.api_attributes[i][1] \o <<EQUALS>> \o r.api_attributes[i][2]]
    \o [i \in 1..Len(r.queries) |->
          IF r.queries[i][2] # <<>>
          THEN <<QUESTION>> \o r.queries[i][1] \o <<EQUALS>> \o r.queries[i][2]
          ELSE <<QUESTION>> \o r.queries[i][1]]

\* MikrotikAPIRequest.get_request: each word as pack_length(len(text)), the
\* number of characters of the text, then text.encode("utf-8"); then
\* pack_length(0).
get_request(r) ==
    LET words == RequestWords(r)
        packs == [i \in 1..Len(words) |-> pack_length(Len(words[i]))]
    IN  IF \E i \in 1..Len(words) : packs[i].err # ""
        THEN Raise("MikrotikAPIError: Too long command!", <<>>)
        ELSE Ok(Concat([i \in 1..Len(words) |-> packs[i].val \o Utf8Encode(words[i])])
                \o pack_length(0).val)

(***************************************************************************)
(* The wire format of a sentence, as the peer writes and reads it: every   *)
(* word is its length in bytes, in the 1- to 4-byte prefix form, then its  *)
(* bytes; a zero-length word ends the sentence.                            *)
(***************************************************************************)
WirePrefix(n) ==
    IF n < 128 THEN <<n>>
    ELSE IF n < 16384 THEN <<128 + (n \div 256), n % 256>>
    ELSE IF n < 2097152 THEN <<192 + (n \div 65536), (n \div 256) % 256, n % 256>>
    ELSE <<224 + (n \div 16777216), (n \div 65536) % 256, (n \div 256) % 256, n % 256>>

WireSentence(words) ==
    Concat([i \in 1..Len(words) |-> WirePrefix(Len(words[i])) \o words[i]]) \o <<0>>

WireSentences(sentences) ==
    Concat([i \in 1..Len(sentences) |-> WireSentence(sentences[i])])

\* the width of the prefix that starts with byte b0; 0: no such prefix
WireWidth(b0) ==
    IF b0 < 128 THEN 1 ELSE IF b0 < 192 THEN 2 ELSE IF b0 < 224 THEN 3
    ELSE IF b0 < 240 THEN 4 ELSE 0

WireLength(b, i, w) ==
    IF w = 1 THEN b[i]
    ELSE IF w = 2 THEN (b[i] - 128) * 256 + b[i + 1]
    ELSE IF w = 3 THEN ((b[i] - 192) * 256 + b[i + 1]) * 256 + b[i + 2]
    ELSE (((b[i] - 224) * 256 + b[i + 1]) * 256 + b[i + 2]) * 256 + b[i + 3]

\* The words of the sentence that starts at b[i], after the words read
\* before, up to its zero-length word, and the bytes left after it; ok is
\* FALSE when the bytes end, or a prefix is none, before the zero-length word.
RECURSIVE WireRead(_, _, _)
WireRead(b, i, words) ==
    IF i > Len(b) THEN [ok |-> FALSE, words |-> words, rest |-> <<>>]
    ELSE With(WireWidth(b[i]), LAMBDA w :
           IF w = 0 \/ i + w - 1 > Len(b)
           THEN [ok |-> FALSE, words |-> words, rest |-> <<>>]
           ELSE With(WireLength(b, i, w), LAMBDA n :
                  IF n = 0
                  THEN [ok |-> TRUE, words |-> words, rest |-> SliceFrom(b, i + w - 1)]
                  ELSE IF i + w + n - 1 > Len(b)
                  THEN [ok |-> FALSE, words |-> words, rest |-> <<>>]
                  ELSE With(Append(words, SubSeq(b, i + w, i + w + n - 1)), LAMBDA ws :
                         WireRead(b, i + w + n, ws))))

(***************************************************************************)
(* State.                                                                  *)
(*   codec    cpc, length, packed, unpacked: one pack_length /             *)
(*            unpack_length call each                                      *)
(*   builder  bpc, request, data: one MikrotikAPIRequest and its           *)
(*            get_request()                                                *)
(*   parser   ppc, sentences, buffer, return_values: the sentences a peer  *)
(*            wrote, the complete buffer _recv accumulated, what _recv     *)
(*            returns                                                      *)
(*   session  one Mikrotik object, its caller and its peer                 *)
(***************************************************************************)
VARIABLES cpc, length, packed, unpacked,
          bpc, request, data,
          ppc, sentences, buffer, return_values,
          pc, op, phase, args, req, sock, peer, unanswered, wire,
          responses, response, outcome, events, answer, calls

codecVars == <<cpc, length, packed, unpacked>>

builderVars == <<bpc, request, data>>

parserVars == <<ppc, sentences, buffer, return_values>>

sessionVars == <<pc, op, phase, args, req, sock, peer, unanswered, wire,
                 responses, response, outcome, events, answer, calls>>

vars == <<codecVars, builderVars, parserVars, sessionVars>>

NoRequest == [command |-> <<>>, attributes |-> <<>>, api_attributes |-> <<>>,
              queries |-> <<>>]

NoResponse == MikrotikApiResponse(<<>>, 0, EmptyDict, <<>>)

CodecIdle ==
    /\ cpc = "off" /\ length = 0 /\ packed = Bytes(<<>>) /\ unpacked = Ok(0)

BuilderIdle ==
    /\ bpc = "off" /\ request = NoRequest /\ data = Ok(<<>>)

ParserIdle ==
    /\ ppc = "off" /\ sentences = <<>> /\ buffer = <<>> /\ return_values = Ok(<<>>)

SessionIdle ==
    /\ pc = "off" /\ op = "none" /\ phase = 0
    /\ args = [username |-> <<>>, password |-> <<>>]
    /\ req = NoRequest /\ sock = "closed" /\ peer = "closed" /\ unanswered = 0
    /\ wire = <<>> /\ responses = <<>> /\ response = NoResponse
    /\ outcome = [op |-> "none", err |-> "", val |-> <<>>]
    /\ events = <<>> /\ answer = <<>> /\ calls = 0

(***************************************************************************)
(* The codec on its own: pack_length(length), then unpack_length of the    *)
(* bytes object it returned; and unpack_length of a given prefix.          *)
(***************************************************************************)
MaxSmallLength == 130

\* the ends of the four width classes, and the first length that is too long
ClassEnds == {16383, 16384, 2097151, 2097152, 268435455, 268435456}

LengthInputs == (0..MaxSmallLength) \cup ClassEnds

\* first bytes of every marker pattern, with and without bytes after them
PrefixInputs ==
    LET firsts == {5, 129, 193, 225, 240, 248, 255}
        nexts  == {<<>>, <<1>>, <<1, 2>>, <<1, 2, 3>>, <<1, 2, 3, 4>>}
    IN  {<<f>> \o n : f \in firsts, n \in nexts}

CodecInit ==
    /\ cpc = "start" /\ length \in LengthInputs
    /\ packed = Bytes(<<>>) /\ unpacked = Ok(0)
    /\ BuilderIdle /\ ParserIdle /\ SessionIdle

Pack ==
    /\ cpc = "start"
    /\ LET p == pack_length(length)
       IN  /\ packed' = Bytes(p.val)
           /\ cpc' = IF p.err = "" THEN "packed" ELSE "too_long"
    /\ UNCHANGED <<length, unpacked, builderVars, parserVars, sessionVars>>

Unpack ==
    /\ cpc = "packed"
    /\ unpacked' = unpack_length(packed)
    /\ cpc' = "unpacked"
    /\ UNCHANGED <<length, packed, builderVars, parserVars, sessionVars>>

UnpackPrefix ==
    /\ cpc = "start"
    /\ \E v \in PrefixInputs, t \in {"bytes", "str"} :
          /\ packed' = [t |-> t, v |-> v]
          /\ unpacked' = unpack_length([t |-> t, v |-> v])
    /\ cpc' = "decoded"
    /\ UNCHANGED <<length, builderVars, parserVars, sessionVars>>

CodecNext == Pack \/ Unpack \/ UnpackPrefix

SpecCodec == CodecInit /\ [][CodecNext]_vars

(***************************************************************************)
(* The builder on its own: construct a request, then get_request().        *)
(***************************************************************************)
MaxAttributes == 2

MaxApiAttributes == 1

MaxQueries == 1

\* "/x", "/e-acute" and "x"
Commands == {<<47, 120>>, <<47, 233>>, <<120>>}

\* "a", "k"
Keys == {<<97>>, <<107>>}

\* "", "b", "e-acute"
Values == {<<>>, <<98>>, <<233>>}

\* the dicts of at most n items over Keys and Values, as item sequences
Dicts(n) ==
    {d \in UNION {[1..m -> Keys \X Values] : m \in 0..n} :
        \A i, j \in 1..Len(d) : i # j => d[i][1] # d[j][1]}

BuilderInit ==
    /\ bpc = "start" /\ request = NoRequest /\ data = Ok(<<>>)
    /\ CodecIdle /\ ParserIdle /\ SessionIdle

NewRequest ==
    /\ bpc = "start"
    /\ \E command \in Commands, attributes \in Dicts(MaxAttributes),
          api_attributes \in Dicts(MaxApiAttributes), queries \in Dicts(MaxQueries) :
          LET r == MikrotikAPIRequest(command, attributes, api_attributes, queries)
          IN  IF r.err = ""
              THEN request' = r.val /\ bpc' = "constructed"
              ELSE request' = NoRequest /\ bpc' = "rejected"
    /\ UNCHANGED <<data, codecVars, parserVars, sessionVars>>

GetRequest ==
    /\ bpc = "constructed"
    /\ data' = get_request(request)
    /\ bpc' = "built"
    /\ UNCHANGED <<request, codecVars, parserVars, sessionVars>>

BuilderNext == NewRequest \/ GetRequest

SpecBuilder == BuilderInit /\ [][BuilderNext]_vars

(***************************************************************************)
(* The parser on its own: _recv on a buffer that holds complete sentences. *)
(* A sentence is the sequence of its words, each the bytes of its text.    *)
(***************************************************************************)
MaxWords == 2

LongWordLength == 128

\* "!done", "!re", "!trap", "!fatal", then "!bad" and "x!done"
StatusWords == {<<33, 100, 111, 110, 101>>, <<33, 114, 101>>,
                <<33, 116, 114, 97, 112>>, <<33, 102, 97, 116, 97, 108>>,
                <<33, 98, 97, 100>>, <<120, 33, 100, 111, 110, 101>>}

\* "=L=xxx...", LongWordLength bytes
LongWord == <<61, 76, 61>> \o [i \in 1..(LongWordLength - 3) |-> 120]

\* "=a=b", "=a=c", "=message=E", ".t=1", "=k=e-acute" and the long word
ReplyWords == {<<61, 97, 61, 98>>, <<61, 97, 61, 99>>,
               <<61, 109, 101, 115, 115, 97, 103, 101, 61, 69>>,
               <<46, 116, 61, 49>>, <<61, 107, 61, 195, 169>>, LongWord}

\* a status word and at most MaxWords words, or no word at all
SentenceInputs ==
    {<<>>} \cup
    {<<st>> \o ws : st \in StatusWords,
                    ws \in UNION {[1..m -> ReplyWords] : m \in 0..MaxWords}}

\* one sentence, or one sentence and a sentence of a status word only
BufferInputs ==
    {<<s1>> : s1 \in SentenceInputs}
    \cup {<<s1, <<st>>>> : s1 \in SentenceInputs, st \in StatusWords}
    \cup {<<<<st>>, s2>> : st \in StatusWords, s2 \in SentenceInputs}

ParserInit ==
    /\ ppc = "start" /\ sentences \in BufferInputs
    /\ buffer = <<>> /\ return_values = Ok(<<>>)
    /\ CodecIdle /\ BuilderIdle /\ SessionIdle

\* the read loop has accumulated all the peer wrote: the last byte is zero
Accumulate ==
    /\ ppc = "start"
    /\ buffer' = WireSentences(sentences)
    /\ ppc' = "complete"
    /\ UNCHANGED <<sentences, return_values, codecVars, builderVars, sessionVars>>

Parse ==
    /\ ppc = "complete"
    /\ return_values' = ParseResponses(buffer)
    /\ ppc' = "parsed"
    /\ UNCHANGED <<sentences, buffer, codecVars, builderVars, sessionVars>>

ParserNext == Accumulate \/ Parse

SpecParser == ParserInit /\ [][ParserNext]_vars

(***************************************************************************)
(* The session: one Mikrotik object (already connected: __init__ calls     *)
(* connect), its single-threaded caller, and the peer at the other end of  *)
(* the socket.                                                             *)
(*   pc          where the caller is: "idle" between calls, or the         *)
(*               statement of _send, _recv, login or disconnect it is at   *)
(*   op, phase   the call in progress (login's first or second round trip) *)
(*   req         the request to send (r)                                   *)
(*   sock        the client's socket: "open" or "closed"                   *)
(*   peer        "up", or "closed" once the peer has closed its end        *)
(*   unanswered  requests the peer has received and not answered yet       *)
(*   wire        bytes the peer has written that no recv has returned yet  *)
(*   responses   _recv's accumulating buffer                               *)
(*   response    login's first Reply                                       *)
(*   outcome     the last finished call: its name, the exception that left *)
(*               it ("" for a normal return) and the value returned        *)
(*   events      the transport operations of the call in progress          *)
(*   answer      the sentences the peer wrote in answer to the last        *)
(*               request sent                                              *)
(*   calls       login and run calls made so far                           *)
(***************************************************************************)
MaxCalls == 2

RecvSize == 2048

\* "/login", "name", "response", "ret"
W_login == <<47, 108, 111, 103, 105, 110>>

W_name == <<110, 97, 109, 101>>

W_response == <<114, 101, 115, 112, 111, 110, 115, 101>>

W_ret == <<114, 101, 116>>

\* the value of an ASCII hexadecimal digit, -1 of any other character
HexDigit(c) ==
    IF c \in 48..57 THEN c - 48
    ELSE IF c \in 97..102 THEN c - 87
    ELSE IF c \in 65..70 THEN c - 55
    ELSE -1

\* binascii.unhexlify of a str
Unhexlify(s) ==
    IF \E i \in 1..Len(s) : s[i] >= 128 THEN Raise("ValueError", <<>>)
    ELSE IF Len(s) % 2 = 1 \/ \E i \in 1..Len(s) : HexDigit(s[i]) = -1
    THEN Raise("binascii.Error", <<>>)
    ELSE Ok([i \in 1..(Len(s) \div 2) |->
                16 * HexDigit(s[2 * i - 1]) + HexDigit(s[2 * i])])

RECURSIVE SumBytes(_)
SumBytes(b) == IF b = <<>> THEN 0 ELSE (Head(b) + SumBytes(Tail(b))) % 256

\* hexdigest() of md5 over the bytes fed to it.  The digest is an opaque
\* primitive here: a function of its input that yields lower-case hex text.
Md5HexDigest(b) ==
    LET hex(d) == IF d < 10 THEN 48 + d ELSE 87 + d
    IN  <<hex(SumBytes(b) \div 16), hex(SumBytes(b) % 16)>>

\* the reply sentences of the peer: "!done"; "!re" "=a=b"; "!done" "=ret=ab";
\* "!done" "=ret=zz"
PeerDone == <<<<33, 100, 111, 110, 101>>>>

PeerData == <<<<33, 114, 101>>, <<61, 97, 61, 98>>>>

PeerChallenge == <<<<33, 100, 111, 110, 101>>, <<61, 114, 101, 116, 61, 97, 98>>>>

PeerBadChallenge == <<<<33, 100, 111, 110, 101>>, <<61, 114, 101, 116, 61, 122, 122>>>>

\* what the peer may write in answer to one request: one or more sentences
PeerReplies == {<<PeerDone>>, <<PeerData, PeerDone>>, <<PeerChallenge>>,
                <<PeerBadChallenge>>}

\* "u", "p"
Usernames == {<<117>>}

Passwords == {<<112>>}

\* run("/x") and run("/x", {"a": "b"})
RunRequests == {[command |-> <<47, 120>>, attributes |-> <<>>],
                [command |-> <<47, 120>>, attributes |-> <<<<<<97>>, <<98>>>>>>]}

Event(ev, r) == [ev |-> ev, request |-> r]

SessionInit ==
    /\ pc = "idle" /\ op = "none" /\ phase = 0
    /\ args = [username |-> <<>>, password |-> <<>>]
    /\ req = NoRequest /\ sock = "open" /\ peer = "up" /\ unanswered = 0
    /\ wire = <<>> /\ responses = <<>> /\ response = NoResponse
    /\ outcome = [op |-> "none", err |-> "", val |-> <<>>]
    /\ events = <<>> /\ answer = <<>> /\ calls = 0
    /\ CodecIdle /\ BuilderIdle /\ ParserIdle

pureVars == <<codecVars, builderVars, parserVars>>

\* login(username, password), to its first _send
CallLogin ==
    /\ pc = "idle" /\ calls < MaxCalls
    /\ \E username \in Usernames, password \in Passwords :
          args' = [username |-> username, password |-> password]
    /\ op' = "login" /\ phase' = 1
    /\ req' = MikrotikAPIRequest(W_login, <<>>, <<>>, <<>>).val
    /\ response' = NoResponse
    /\ events' = <<>>
    /\ calls' = calls + 1
    /\ pc' = "send"
    /\ UNCHANGED <<sock, peer, unanswered, wire, responses, outcome, answer, pureVars>>

\* run(command, attributes), to its _send
CallRun ==
    /\ pc = "idle" /\ calls < MaxCalls
    /\ \E a \in RunRequests :
          req' = MikrotikAPIRequest(a.command, a.attributes, <<>>, <<>>).val
    /\ op' = "run" /\ phase' = 1
    /\ events' = <<>>
    /\ calls' = calls + 1
    /\ pc' = "send"
    /\ UNCHANGED <<args, sock, peer, unanswered, wire, responses, response, outcome,
                   answer, pureVars>>

\* _send(r.get_request()): the peer receives the request, if it is there.
\* On a connection the peer has left, send succeeds or raises OSError
\* (EPIPE, ECONNRESET), as the state of the connection has it; on a closed
\* socket it raises OSError (EBADF).  The exception leaves the call.
Send ==
    /\ pc = "send"
    /\ get_request(req).err = ""
    /\ events' = Append(events, Event("send", req))
    /\ \E raises \in BOOLEAN :
          /\ raises => (peer = "closed" \/ sock = "closed")
          /\ sock = "closed" => raises
          /\ IF raises
             THEN /\ outcome' = [op |-> op, err |-> "OSError", val |-> <<>>]
                  /\ pc' = "idle"
                  /\ UNCHANGED <<unanswered, answer>>
             ELSE /\ outcome' = outcome
                  /\ pc' = "recv"
                  /\ unanswered' = IF peer = "up" THEN unanswered + 1 ELSE unanswered
                  /\ answer' = <<>>
    /\ UNCHANGED <<op, phase, args, req, sock, peer, wire, responses, response,
                   calls, pureVars>>

\* _recv: responses = b''
RecvStart ==
    /\ pc = "recv"
    /\ responses' = <<>>
    /\ events' = Append(events, Event("recv", NoRequest))
    /\ pc' = "recv_read"
    /\ UNCHANGED <<op, phase, args, req, sock, peer, unanswered, wire, response,
                   outcome, answer, calls, pureVars>>

\* responses += self._socket.recv(2048): blocks while nothing has arrived
\* and the peer is up; returns some of what has arrived, at most 2048 bytes;
\* once the peer has closed and all it wrote has been read, returns b'' (the
\* peer closed in order) or raises OSError (the connection was reset).
RecvRead ==
    /\ pc = "recv_read"
    /\ wire # <<>> \/ peer = "closed"
    /\ \E raises \in BOOLEAN :
          /\ raises => (wire = <<>> /\ peer = "closed")
          /\ IF raises
             THEN /\ outcome' = [op |-> op, err |-> "OSError", val |-> <<>>]
                  /\ pc' = "idle"
                  /\ UNCHANGED <<responses, wire>>
             ELSE /\ \E n \in 0..Len(wire) :
                        /\ n = 0 <=> wire = <<>>
                        /\ n <= RecvSize
                        /\ responses' = responses \o SubSeq(wire, 1, n)
                        /\ wire' = SubSeq(wire, n + 1, Len(wire))
                  /\ outcome' = outcome
                  /\ pc' = "recv_check"
    /\ UNCHANGED <<op, phase, args, req, sock, peer, unanswered, response,
                   events, answer, calls, pureVars>>

\* _recv from "if responses[-1] != 0" on, for the buffer read so far: the
\* loop goes on ("continue"), or _recv raises, or it returns the Replies.
RecvResult(buf) ==
    IF buf = <<>> THEN [next |-> "raise", err |-> "IndexError", val |-> <<>>]
    ELSE IF buf[Len(buf)] # 0 THEN [next |-> "continue", err |-> "", val |-> <<>>]
    ELSE With(ParseResponses(buf), LAMBDA r :
            IF r.err # "" THEN [next |-> "raise", err |-> r.err, val |-> <<>>]
            ELSE [next |-> "return", err |-> "", val |-> r.val])

\* One turn of the test that ends the read loop and, with the loop left, the
\* rest of _recv and the caller's use of what it returns: login keeps the
\* first Reply of its first _recv and drops what its second _recv returns,
\* run returns all.
RecvCheck ==
    /\ pc = "recv_check"
    /\ \E r \in {RecvResult(responses)} :
          /\ pc' = IF r.next = "continue" THEN "recv_read"
                   ELSE IF r.next = "return" /\ op = "login" /\ phase = 1
                   THEN "login_check"
                   ELSE "idle"
          /\ outcome' = IF r.next = "raise"
                        THEN [op |-> op, err |-> r.err, val |-> <<>>]
                        ELSE IF r.next = "return" /\ ~(op = "login" /\ phase = 1)
                        THEN [op |-> op, err |-> "",
                              val |-> IF op = "run" THEN r.val ELSE <<>>]
                        ELSE outcome
          /\ response' = IF r.next = "return" /\ op = "login" /\ phase = 1
                         THEN r.val[1]
                         ELSE response
    /\ UNCHANGED <<op, phase, args, req, sock, peer, unanswered, wire, responses,
                   events, answer, calls, pureVars>>

\* A login that returns normally where the first Reply carries no "ret",
\* and is LoginCheck otherwise: the variant the property of C9 must tell
\* from the code.
LoginCheckWithoutFailure ==
    /\ pc = "login_check"
    /\ IF W_ret \in DOMAIN response.attributes THEN
           LET value == Unhexlify(response.attributes[W_ret])
               md    == <<0>> \o Utf8Encode(args.password) \o value.val
           IN  IF value.err # "" THEN
                   /\ outcome' = [op |-> op, err |-> value.err, val |-> <<>>]
                   /\ pc' = "idle"
                   /\ UNCHANGED <<req, phase>>
               ELSE
                   /\ req' = MikrotikAPIRequest(W_login,
                                <<<<W_name, args.username>>,
                                  <<W_response, <<48, 48>> \o Md5HexDigest(md)>>>>,
                                <<>>, <<>>).val
                   /\ phase' = 2
                   /\ pc' = "send"
                   /\ outcome' = outcome
       ELSE
           /\ outcome' = [op |-> op, err |-> "", val |-> <<>>]
           /\ pc' = "idle"
           /\ UNCHANGED <<req, phase>>
    /\ UNCHANGED <<op, args, sock, peer, unanswered, wire, responses, response,
                   events, answer, calls, pureVars>>

\* login after "response = self._recv()[0]"
LoginCheck ==
    /\ pc = "login_check"
    /\ IF W_ret \in DOMAIN response.attributes THEN
           LET value == Unhexlify(response.attributes[W_ret])
               md    == <<0>> \o Utf8Encode(args.password) \o value.val
           IN  IF value.err # "" THEN
                   /\ outcome' = [op |-> op, err |-> value.err, val |-> <<>>]
                   /\ pc' = "idle"
                   /\ UNCHANGED <<req, phase>>
               ELSE
                   /\ req' = MikrotikAPIRequest(W_login,
                                <<<<W_name, args.username>>,
                                  <<W_response, <<48, 48>> \o Md5HexDigest(md)>>>>,
                                <<>>, <<>>).val
                   /\ phase' = 2
                   /\ pc' = "send"
                   /\ outcome' = outcome
       ELSE
           /\ outcome' = [op |-> op, err |-> "MikrotikAPIError: Cannot log in!",
                          val |-> <<>>]
           /\ pc' = "idle"
           /\ UNCHANGED <<req, phase>>
    /\ UNCHANGED <<op, args, sock, peer, unanswered, wire, responses, response,
                   events, answer, calls, pureVars>>

\* disconnect()
CallDisconnect ==
    /\ pc = "idle"
    /\ op' = "disconnect" /\ phase' = 0
    /\ events' = <<>>
    /\ pc' = "shutdown"
    /\ UNCHANGED <<args, req, sock, peer, unanswered, wire, responses, response,
                   outcome, answer, calls, pureVars>>

\* self._socket.shutdown(SHUT_WR): succeeds on a connected socket; on a
\* connection the peer has left it succeeds or raises OSError (ENOTCONN),
\* as the state of the connection has it; on a closed socket it raises
\* OSError (EBADF).  The exception leaves disconnect.
Shutdown ==
    /\ pc = "shutdown"
    /\ \E raises \in BOOLEAN :
          /\ raises => (peer = "closed" \/ sock = "closed")
          /\ sock = "closed" => raises
          /\ IF raises
             THEN /\ outcome' = [op |-> op, err |-> "OSError", val |-> <<>>]
                  /\ pc' = "idle"
             ELSE /\ outcome' = outcome
                  /\ pc' = "close"
    /\ events' = Append(events, Event("shutdown", NoRequest))
    /\ UNCHANGED <<op, phase, args, req, sock, peer, unanswered, wire, responses,
                   response, answer, calls, pureVars>>

\* self._socket.close()
Close ==
    /\ pc = "close"
    /\ sock' = "closed"
    /\ events' = Append(events, Event("close", NoRequest))
    /\ outcome' = [op |-> op, err |-> "", val |-> <<>>]
    /\ pc' = "idle"
    /\ UNCHANGED <<op, phase, args, req, peer, unanswered, wire, responses,
                   response, answer, calls, pureVars>>

\* The peer answers the oldest request it has not answered.
PeerReply ==
    /\ peer = "up" /\ unanswered > 0
    /\ \E reply \in PeerReplies :
          /\ wire' = wire \o WireSentences(reply)
          /\ answer' = reply
    /\ unanswered' = unanswered - 1
    /\ UNCHANGED <<pc, op, phase, args, req, sock, peer, responses, response,
                   outcome, events, calls, pureVars>>

\* The peer stops in the middle of an answer: a proper part of it is written,
\* then the connection is closed.
PeerReplyCut ==
    /\ peer = "up" /\ unanswered > 0
    /\ \E reply \in PeerReplies :
          \E n \in 1..(Len(WireSentences(reply)) - 1) :
             /\ wire' = wire \o SubSeq(WireSentences(reply), 1, n)
             /\ answer' = reply
    /\ unanswered' = unanswered - 1
    /\ peer' = "closed"
    /\ UNCHANGED <<pc, op, phase, args, req, sock, responses, response,
                   outcome, events, calls, pureVars>>

\* The peer closes the connection.
PeerClose ==
    /\ peer = "up"
    /\ peer' = "closed"
    /\ UNCHANGED <<pc, op, phase, args, req, sock, unanswered, wire, responses,
                   response, outcome, events, answer, calls, pureVars>>

\* the statements of the program, which runs on once called
Program == Send \/ RecvStart \/ RecvRead \/ RecvCheck \/ LoginCheck \/ Shutdown \/ Close

Next ==
    \/ CallLogin \/ CallRun \/ CallDisconnect
    \/ Send \/ RecvStart \/ RecvRead \/ RecvCheck \/ LoginCheck
    \/ Shutdown \/ Close
    \/ PeerReply \/ PeerReplyCut \/ PeerClose

Spec == SessionInit /\ [][Next]_vars

\* The caller's thread is scheduled for as long as it has a statement to run.
FairSpec == Spec /\ WF_vars(Program)

(***************************************************************************)
(* What the wire format and the protocol say a sentence means; the         *)
(* properties below compare the code's results with it.                    *)
(***************************************************************************)
\* "!done", "!re", "!trap", "!fatal"
ValidStatusWords == {<<33, 100, 111, 110, 101>>, <<33, 114, 101>>,
                     <<33, 116, 114, 97, 112>>, <<33, 102, 97, 116, 97, 108>>}

WellFormed(sentence) == sentence # <<>> /\ sentence[1] \in ValidStatusWords

IsMessageWord(w) == StartsWith(w, S_message)

IsAttributeWord(w) == StartsWith(w, <<EQUALS>>) /\ ~IsMessageWord(w)

\* the key and the value of "=key=value", split at the first "=" after the marker
AttributeKey(w) == Utf8Decode(Slice(w, 1, 1 + Find(SliceFrom(w, 1), EQUALS))).val

AttributeValue(w) == Utf8Decode(SliceFrom(w, 2 + Find(SliceFrom(w, 1), EQUALS))).val

RECURSIVE ExpectedErrors(_)
ExpectedErrors(words) ==
    IF words = <<>> THEN <<>>
    ELSE (IF IsMessageWord(Head(words))
          THEN <<Utf8Decode(SliceFrom(Head(words), 9)).val>> ELSE <<>>)
         \o ExpectedErrors(Tail(words))

ExpectedAttributes(words) ==
    LET at   == {i \in 1..Len(words) : IsAttributeWord(words[i])}
        keys == {AttributeKey(words[i]) : i \in at}
        last(k) == CHOOSE i \in at : /\ AttributeKey(words[i]) = k
                                     /\ \A j \in at : AttributeKey(words[j]) = k => j <= i
    IN  [k \in keys |-> AttributeValue(words[last(k)])]

ExpectedType(status) ==
    IF status = S_done THEN STATUS ELSE IF status = S_re THEN DATA ELSE ERROR

\* the Reply of a well-formed sentence
ExpectedReply(sentence) ==
    LET status == Utf8Decode(Tail(sentence[1])).val
    IN  MikrotikApiResponse(status, ExpectedType(status),
                            ExpectedAttributes(Tail(sentence)),
                            ExpectedErrors(Tail(sentence)))

ExpectedReplies(ss) == [i \in 1..Len(ss) |-> ExpectedReply(ss[i])]

AllWords(ss) == UNION {{ss[i][j] : j \in 1..Len(ss[i])} : i \in 1..Len(ss)}

\* the words of a request, as bytes, in the order the protocol asks for
ClaimedRequestWords(r) ==
    <<Utf8Encode(r.command)>>
    \o [i \in 1..Len(r.attributes) |->
          Utf8Encode(<<EQUALS>> \o r.attributes[i][1] \o <<EQUALS>> \o r.attributes[i][2])]
    \o [i \in 1..Len(r.api_attributes) |->
          Utf8Encode(<<DOT>> \o r.api_attributes[i][1] \o <<EQUALS>>
                     \o r.api_attributes[i][2])]
    \o [i \in 1..Len(r.queries) |->
          Utf8Encode(IF r.queries[i][2] = <<>>
                     THEN <<QUESTION>> \o r.queries[i][1]
                     ELSE <<QUESTION>> \o r.queries[i][1] \o <<EQUALS>>
                          \o r.queries[i][2])]

(***************************************************************************)
(* Properties of the codec, the builder and the parser.                    *)
(***************************************************************************)
\* C1: unpack_length of the bytes pack_length(n) returned is n, for every n
\* the encoder accepts.
C1_RoundTrip ==
    cpc = "unpacked" => (unpacked.err = "" /\ unpacked.val = length)

\* C7: a length prefix whose first byte is 0xF0 or above is rejected by
\* unpack_length, never decoded into a length.
C7_UnknownMarkerRejected ==
    (cpc = "decoded" /\ packed.v[1] >= 240) => unpacked.err # ""

\* C8: reading the bytes of get_request back word by word consumes them all
\* and yields the command, the attribute, api-attribute and query words in
\* this order, the zero-length word last.
C8_ReadBack ==
    bpc = "built" =>
        /\ data.err = ""
        /\ LET rb == WireRead(data.val, 1, <<>>)
           IN  rb.ok /\ rb.rest = <<>> /\ rb.words = ClaimedRequestWords(request)

\* C4: a complete buffer of k well-formed sentences, with words of any length
\* (here of printable ASCII text), parses to the k Replies of its sentences,
\* in order, each word taken as the payload its prefix announces.
C4_FramingFollowed ==
    (/\ ppc = "parsed"
     /\ \A i \in 1..Len(sentences) : WellFormed(sentences[i])
     /\ \A w \in AllWords(sentences) : \A j \in 1..Len(w) : w[j] < 128)
    => /\ return_values.err = ""
       /\ Len(return_values.val) = Len(sentences)
       /\ return_values.val = ExpectedReplies(sentences)

\* C5: a sentence of a valid status word and words with 1-byte length
\* prefixes yields the Reply with its status, classification, errors and
\* attributes (last value of a key wins, other words contribute nothing).
C5_ShortWordReply ==
    (/\ ppc = "parsed"
     /\ \A i \in 1..Len(sentences) : WellFormed(sentences[i])
     /\ \A w \in AllWords(sentences) : Len(w) < 128)
    => /\ return_values.err = ""
       /\ \A i \in 1..Len(sentences) :
             /\ i <= Len(return_values.val)
             /\ return_values.val[i] = ExpectedReply(sentences[i])

\* C6: _recv never returns an empty list nor a Reply of an unknown status,
\* and a buffer shorter than 2 bytes, or with a sentence whose status word is
\* none of the four, makes it fail as a whole.
C6_NoSilentOrPartialSuccess ==
    ppc = "parsed" =>
        /\ return_values.err = "" =>
              /\ return_values.val # <<>>
              /\ \A i \in 1..Len(return_values.val) :
                    return_values.val[i].status \in {S_done, S_trap, S_fatal, S_re}
        /\ (Len(buffer) < 2 \/ \E i \in 1..Len(sentences) : ~WellFormed(sentences[i]))
              => return_values.err # ""

(***************************************************************************)
(* Properties of the session.                                              *)
(***************************************************************************)
\* C2: a run() that finishes on an open connection to a peer that is up
\* returns exactly the sentences the peer wrote in answer to its request,
\* however the reads split them, and leaves nothing of them unread.
C2_RunReturnsItsAnswer ==
    (pc = "idle" /\ op = "run" /\ sock = "open" /\ peer = "up")
    => /\ outcome.err = ""
       /\ outcome.val = ExpectedReplies(answer)
       /\ wire = <<>>

\* C3: once the peer has closed and all it wrote has been read (every
\* further read returns no bytes), _recv eventually terminates, whether or
\* not it holds a partial message.
C3_RecvTerminates ==
    (pc \in {"recv_read", "recv_check"} /\ peer = "closed" /\ wire = <<>>)
    ~> (pc \notin {"recv_read", "recv_check"})

\* C10: when disconnect() has finished, normally or with an exception, the
\* socket is closed.
C10_DisconnectCloses ==
    (pc = "idle" /\ op = "disconnect") => sock = "closed"

LoginFinished == pc = "idle" /\ op = "login"

FirstLoginRequest == MikrotikAPIRequest(W_login, <<>>, <<>>, <<>>).val

\* a "/login" request carrying exactly the attributes name and response
IsSecondLoginRequest(r) ==
    /\ r.command = W_login /\ r.api_attributes = <<>> /\ r.queries = <<>>
    /\ Len(r.attributes) = 2
    /\ {r.attributes[i][1] : i \in 1..2} = {W_name, W_response}
    /\ \A i \in 1..2 : r.attributes[i][1] = W_name => r.attributes[i][2] = args.username

\* the events of a login that goes on to its second round trip
SecondRoundTrip ==
    /\ Len(events) \in {3, 4}
    /\ events[3].ev = "send" /\ IsSecondLoginRequest(events[3].request)
    /\ Len(events) = 4 => events[4] = Event("recv", NoRequest)

\* the events of a login that ends after its first round trip, the socket open
OneRoundTrip(errs) ==
    /\ Len(events) = 2
    /\ outcome.op = "login" /\ outcome.err \in errs
    /\ sock = "open"

HasFirstReply == response # NoResponse

HasRet == W_ret \in DOMAIN response.attributes

\* C9 (as stated): a finished login has sent "/login" without attributes and
\* received; if the first Reply carries "ret" it has then sent the second
\* request, with name and response, and received; if the first Reply carries
\* no "ret" it has failed with the authentication error after one send and
\* one receive, the socket open.
C9_LoginEventOrder ==
    LoginFinished =>
        /\ events[1] = Event("send", FirstLoginRequest)
        /\ Len(events) >= 2 => events[2] = Event("recv", NoRequest)
        /\ ~HasFirstReply => Len(events) <= 2
        /\ (HasFirstReply /\ HasRet) => SecondRoundTrip
        /\ (HasFirstReply /\ ~HasRet)
              => OneRoundTrip({"MikrotikAPIError: Cannot log in!"})

\* C9 (amended): as C9, the second round trip being made only if the "ret" of
\* the first Reply is hexadecimal text; if it is not, login fails decoding it
\* after one send and one receive, the socket open.  A login that returns
\* normally has made both round trips.
C9_LoginEventOrderHex ==
    LoginFinished =>
        /\ events[1] = Event("send", FirstLoginRequest)
        /\ Len(events) >= 2 => events[2] = Event("recv", NoRequest)
        /\ ~HasFirstReply => Len(events) <= 2
        /\ (HasFirstReply /\ HasRet /\ Unhexlify(response.attributes[W_ret]).err = "")
              => SecondRoundTrip
        /\ (HasFirstReply /\ HasRet /\ Unhexlify(response.attributes[W_ret]).err # "")
              => OneRoundTrip({"binascii.Error", "ValueError"})
        /\ (HasFirstReply /\ ~HasRet)
              => OneRoundTrip({"MikrotikAPIError: Cannot log in!"})
        /\ (outcome.op = "login" /\ outcome.err = "")
              => (Len(events) = 4 /\ HasFirstReply /\ HasRet)

\* C9: a login that has made both round trips and returned
C9_LoginCompleted ==
    /\ LoginFinished /\ outcome.op = "login" /\ outcome.err = ""
    /\ HasFirstReply /\ HasRet /\ Len(events) = 4

=============================================================================
